---- MODULE Spec2Model ----
\* SubVault: the nonce-based Sign-In-With-Ethereum handshake (route /verify)
\* and the ownership-scoped vault/payment store (row-level security,
\* handle trigger, unique index), modelled from the route handler, the server
\* actions and the SQL migrations.
EXTENDS Integers, Sequences, FiniteSets, TLC

\* ------------------------------------------------------------------ bounds
MaxTime == 6            \* the clock stops advancing here (minutes)
MaxReqs == 2            \* POST /verify requests in one behaviour
MaxNonces == 1          \* distinct nonces GET /verify can hand out
MaxVaults == 2          \* vault INSERT statements in one behaviour
MaxCreates == 2         \* createVault calls in one behaviour
MaxTx == 2              \* vault statements that can be in flight together
MaxPayments == 2        \* payment rows inserted in one behaviour
MaxPays == 2            \* handlePayNow calls in one behaviour
MaxTail == 3            \* characters typed freely at the end of a name
MaxAmountTail == 2      \* characters typed freely at the end of an amount
MaxChainDigits == 5     \* digits of the Chain ID field of a message
MaxHistory == 3         \* status changes of spend permissions in one behaviour
MaxPermissions == 2     \* spend_permissions rows at a time

\* expiresAt = Date.now() + 5 * 60 * 1000, in minutes
NonceTtlMinutes == 5

ReqIds == 1..MaxReqs
Nonces == 1..MaxNonces
NoNonce == 0            \* message.match(/Nonce: (\w+)/) found nothing
Addresses == {"0xA", "0xB"}
AuthAddresses == {"0xA"}   \* the wallets that sign in under SpecAuth

VARIABLES
    now,            \* wall clock, minutes
    auth_nonces,    \* table auth_nonces: rows [nonce, expires_at], nonce is the primary key
    issued,         \* every row GET ever inserted (history)
    handed,         \* every nonce GET ever returned: [nonce, at, stored] (history)
    req,            \* POST /verify requests: position in the handler, inputs, response
    auth_users,     \* auth.users: rows [id, email]
    user_profiles,  \* table user_profiles: rows [user_id, address]
    vaults,         \* table vaults: rows [id, user_id, name, handle] (+ creator, history)
    payments,       \* table payments: rows [id, vault_id, status, last_payment_date,
                    \* amount, next_execution_date, executed_count, transaction_hashes,
                    \* series_id]; a date of 0 and a series_id of 0 are NULL
    nextId,         \* uuid_generate_v4() for vaults and payments, as counters
    tx,             \* vault INSERT/UPDATE statements between their BEFORE trigger and their commit
    lastOp,         \* the statement that completed last: caller, what it asked, what came back
    createLog,      \* results createVault returned, in order of completion (began: how many had returned when the call was made)
    schema,         \* which migration's view definitions are in force
    call,           \* a library function applied to an input: [fn, input, output]
    pay,            \* handlePayNow calls in the browser: position, payment, what the wallet said
    calendar,       \* the mounted PaymentsCalendar: session user, its payments state, payingPaymentId
    spend_permissions,  \* table spend_permissions: rows [id, status]
    permission_history, \* table permission_history, oldest first: [permission_id, old_status, new_status]
    onboarding      \* OnboardingProvider, OnboardingClient and OnboardingModal state

authVars == <<now, auth_nonces, issued, handed, req, auth_users, user_profiles>>
storeVars == <<vaults, payments, nextId, tx, lastOp, createLog, schema>>

libVars == <<call>>
payVars == <<pay, calendar>>

vars == <<now, auth_nonces, issued, handed, req, auth_users, user_profiles,
          vaults, payments, nextId, tx, lastOp, createLog, schema, call, pay,
          calendar, spend_permissions, permission_history,
          onboarding>>

\* ------------------------------------------------------------ /verify
ErrMissing == "Missing required fields: address, message, signature"
ErrNoNonce == "Invalid message format - nonce not found"
ErrNonce == "Invalid or expired nonce"
ErrSignature == "Invalid signature"
ErrProfile == "Profile lookup failed"
ErrCreate == "Failed to create user"
ErrSignIn == "Sign-in failed"
ErrInternal == "Internal server error"

IdleReq ==
    [pc |-> "idle", address |-> "", nonce |-> NoNonce, sigValid |-> FALSE,
     missing |-> FALSE, nonceError |-> FALSE, thrown |-> FALSE,
     later |-> FALSE, freshAtStart |-> FALSE,
     lookup |-> "none", stored |-> FALSE, passedCheck |-> FALSE,
     verifyCalled |-> FALSE, verifyResult |-> FALSE,
     status |-> 0, error |-> "", session |-> 0]

\* NextResponse.json({ error }, { status })
Respond(r, st, err) == [r EXCEPT !.pc = "done", !.status = st, !.error = err]

\* .from('auth_nonces').select('nonce').eq('nonce', nonce).gt('expires_at', now)
NonceRecord_NoExpiry(store, nonce, t) == {row \in store : row.nonce = nonce}

NonceRecord(store, nonce, t) ==
    {row \in store : row.nonce = nonce /\ row.expires_at > t}

\* the nonces for which some request has passed the nonce check
PassedNonces == {req[r].nonce : r \in {q \in ReqIds : req[q].passedCheck}}

\* what the request's lookup is looking at (history, read off the rows GET
\* inserted): was the nonce ever issued, and is its expiry still ahead
NonceAge(nonce) ==
    IF \E row \in issued : row.nonce = nonce /\ row.expires_at > now THEN "fresh"
    ELSE IF \E row \in issued : row.nonce = nonce THEN "expired"
    ELSE "absent"

NonceStored(nonce) == \E row \in auth_nonces : row.nonce = nonce

\* GET /verify: 16 random bytes (never a value handed out before), stored
\* with a five minute expiry
\* the insert's result is not read: the nonce is returned whether or not the
\* row was written
GET(n, insertError) ==
    /\ \A h \in handed : h.nonce # n
    /\ LET row == [nonce |-> n, expires_at |-> now + NonceTtlMinutes]
           inserted == IF insertError THEN {} ELSE {row}
       IN /\ auth_nonces' = auth_nonces \cup inserted
          /\ issued' = issued \cup inserted
          /\ handed' = handed \cup
                {[nonce |-> n, at |-> now, stored |-> (row \in auth_nonces')]}
    /\ UNCHANGED <<now, req, auth_users, user_profiles, storeVars, libVars, payVars, spend_permissions, permission_history, onboarding>>

\* delete_expired_nonces(): DELETE FROM auth_nonces WHERE expires_at < NOW()
delete_expired_nonces ==
    /\ \E row \in auth_nonces : row.expires_at < now
    /\ auth_nonces' = {row \in auth_nonces : ~(row.expires_at < now)}
    /\ UNCHANGED <<now, issued, handed, req, auth_users, user_profiles, storeVars, libVars, payVars, spend_permissions, permission_history, onboarding>>

Tick ==
    /\ now < MaxTime
    /\ now' = now + 1
    /\ UNCHANGED <<auth_nonces, issued, handed, req, auth_users, user_profiles, storeVars, libVars, payVars, spend_permissions, permission_history, onboarding>>

\* POST, lines 9-27: parse the body, require the three fields, extract the nonce
POST_Start_NoFieldCheck(r, address, nonce, sigValid, missing) ==
    /\ req[r].pc = "idle"
    /\ LET r0 == [req[r] EXCEPT !.address = address, !.nonce = nonce,
                                !.sigValid = sigValid, !.missing = missing,
                                !.later = (nonce \in PassedNonces),
                                !.freshAtStart =
                                    (\E row \in auth_nonces :
                                        row.nonce = nonce /\ row.expires_at > now)]
       IN req' = [req EXCEPT ![r] =
                    IF ~missing /\ nonce = NoNonce THEN Respond(r0, 400, ErrNoNonce)
                    ELSE [r0 EXCEPT !.pc = "select"]]
    /\ UNCHANGED <<now, auth_nonces, issued, handed, auth_users, user_profiles, storeVars, libVars, payVars, spend_permissions, permission_history, onboarding>>

POST_Start(r, address, nonce, sigValid, missing) ==
    /\ req[r].pc = "idle"
    /\ LET r0 == [req[r] EXCEPT !.address = address, !.nonce = nonce,
                                !.sigValid = sigValid, !.missing = missing,
                                !.later = (nonce \in PassedNonces),
                                !.freshAtStart =
                                    (\E row \in auth_nonces :
                                        row.nonce = nonce /\ row.expires_at > now)]
       IN req' = [req EXCEPT ![r] =
                    IF missing THEN Respond(r0, 400, ErrMissing)
                    ELSE IF nonce = NoNonce THEN Respond(r0, 400, ErrNoNonce)
                    ELSE [r0 EXCEPT !.pc = "select"]]
    /\ UNCHANGED <<now, auth_nonces, issued, handed, auth_users, user_profiles, storeVars, libVars, payVars, spend_permissions, permission_history, onboarding>>

\* POST, lines 36-49: look the nonce up, unexpired; 401 when there is none
POST_SelectNonce_FallThrough(r, nonceError) ==
    /\ req[r].pc = "select"
    /\ req' = [req EXCEPT ![r] =
            [req[r] EXCEPT !.pc = "delete", !.passedCheck = TRUE,
                           !.nonceError = nonceError,
                           !.lookup = NonceAge(req[r].nonce),
                           !.stored = NonceStored(req[r].nonce)]]
    /\ UNCHANGED <<now, auth_nonces, issued, handed, auth_users, user_profiles, storeVars, libVars, payVars, spend_permissions, permission_history, onboarding>>

POST_SelectNonce(r, nonceError) ==
    /\ req[r].pc = "select"
    /\ LET nonceRecord == IF nonceError THEN {}
                          ELSE NonceRecord(auth_nonces, req[r].nonce, now)
           r0 == [req[r] EXCEPT !.lookup = NonceAge(req[r].nonce),
                                !.stored = NonceStored(req[r].nonce),
                                !.nonceError = nonceError]
       IN req' = [req EXCEPT ![r] =
                    IF nonceError \/ nonceRecord = {} THEN Respond(r0, 401, ErrNonce)
                    ELSE [r0 EXCEPT !.pc = "delete", !.passedCheck = TRUE]]
    /\ UNCHANGED <<now, auth_nonces, issued, handed, auth_users, user_profiles, storeVars, libVars, payVars, spend_permissions, permission_history, onboarding>>

\* POST, lines 51-55: delete the nonce; the result of the delete is not read
POST_DeleteNonce(r) ==
    /\ req[r].pc = "delete"
    /\ auth_nonces' = {row \in auth_nonces : row.nonce # req[r].nonce}
    /\ req' = [req EXCEPT ![r].pc = "verify"]
    /\ UNCHANGED <<now, issued, handed, auth_users, user_profiles, storeVars, libVars, payVars, spend_permissions, permission_history, onboarding>>

\* POST, lines 68-84: client.verifyMessage; 401 when it is not valid
POST_Verify_Unchecked(r, rpcError) ==
    /\ req[r].pc = "verify"
    /\ req' = [req EXCEPT ![r] =
            IF rpcError
            THEN Respond([req[r] EXCEPT !.verifyCalled = TRUE, !.thrown = TRUE],
                         500, ErrInternal)
            ELSE [req[r] EXCEPT !.verifyCalled = TRUE,
                                !.verifyResult = req[r].sigValid,
                                !.pc = "profile"]]
    /\ UNCHANGED <<now, auth_nonces, issued, handed, auth_users, user_profiles, storeVars, libVars, payVars, spend_permissions, permission_history, onboarding>>

\* a call that throws (the RPC endpoint is unreachable) lands in the catch block
POST_Verify(r, rpcError) ==
    /\ req[r].pc = "verify"
    /\ LET isValid == req[r].sigValid
           r0 == [req[r] EXCEPT !.verifyCalled = TRUE, !.verifyResult = isValid]
       IN req' = [req EXCEPT ![r] =
                    IF rpcError
                    THEN Respond([req[r] EXCEPT !.verifyCalled = TRUE, !.thrown = TRUE],
                                 500, ErrInternal)
                    ELSE IF ~isValid THEN Respond(r0, 401, ErrSignature)
                    ELSE [r0 EXCEPT !.pc = "profile"]]
    /\ UNCHANGED <<now, auth_nonces, issued, handed, auth_users, user_profiles, storeVars, libVars, payVars, spend_permissions, permission_history, onboarding>>

\* POST, lines 92-103: user_profiles by address
POST_ProfileLookup(r, profileError) ==
    /\ req[r].pc = "profile"
    /\ req' = [req EXCEPT ![r] =
            IF profileError THEN Respond(req[r], 500, ErrProfile)
            ELSE IF \E p \in user_profiles : p.address = req[r].address
                 THEN [req[r] EXCEPT !.pc = "signin"]
                 ELSE [req[r] EXCEPT !.pc = "create"]]
    /\ UNCHANGED <<now, auth_nonces, issued, handed, auth_users, user_profiles, storeVars, libVars, payVars, spend_permissions, permission_history, onboarding>>

\* POST, lines 105-116: auth.admin.createUser; the e-mail is unique in
\* auth.users, and handle_new_user inserts the profile in the same transaction
POST_CreateUser_NoUnique(r) ==
    /\ req[r].pc = "create"
    /\ LET id == Cardinality(auth_users) + 1
       IN /\ auth_users' = auth_users \cup {[id |-> id, email |-> req[r].address]}
          /\ user_profiles' = user_profiles \cup
                 {[user_id |-> id, address |-> req[r].address]}
          /\ req' = [req EXCEPT ![r].pc = "signin"]
    /\ UNCHANGED <<now, auth_nonces, issued, handed, storeVars, libVars, payVars, spend_permissions, permission_history, onboarding>>

POST_CreateUser(r) ==
    /\ req[r].pc = "create"
    /\ LET email == req[r].address
           id == Cardinality(auth_users) + 1
       IN IF \/ \E u \in auth_users : u.email = email
             \/ \E p \in user_profiles : p.address = req[r].address
          THEN /\ req' = [req EXCEPT ![r] = Respond(req[r], 500, ErrCreate)]
               /\ UNCHANGED <<auth_users, user_profiles>>
          ELSE /\ auth_users' = auth_users \cup {[id |-> id, email |-> email]}
               /\ user_profiles' = user_profiles \cup
                      {[user_id |-> id, address |-> req[r].address]}
               /\ req' = [req EXCEPT ![r].pc = "signin"]
    /\ UNCHANGED <<now, auth_nonces, issued, handed, storeVars, libVars, payVars, spend_permissions, permission_history, onboarding>>

\* POST, lines 118-125: signInWithPassword, then { ok: true, address, session }
POST_SignIn(r, signInError) ==
    /\ req[r].pc = "signin"
    /\ req' = [req EXCEPT ![r] =
            IF signInError \/ ~(\E u \in auth_users : u.email = req[r].address)
            THEN Respond(req[r], 500, ErrSignIn)
            ELSE [req[r] EXCEPT !.pc = "done", !.status = 200,
                    !.session = (CHOOSE u \in auth_users :
                                    u.email = req[r].address).id]]
    /\ UNCHANGED <<now, auth_nonces, issued, handed, auth_users, user_profiles, storeVars, libVars, payVars, spend_permissions, permission_history, onboarding>>

\* ------------------------------------------------------------ handles
\* Text is a sequence of one-character strings.  The characters of the
\* model: lower-case letters and digits ([a-z0-9]), upper-case letters,
\* space, hyphen, and "!" for every other character.

\* SUBSTRING(handle FROM 1 FOR 50)
HandleMaxLen == 50
\* cleanHandle.slice(0, 32)
HandleizeMaxLen == 32

Digit == <<"0", "1", "2", "3", "4", "5", "6", "7", "8", "9">>
LowerAlnum == {"a", "b"} \cup {Digit[i] : i \in 1..10}

\* LOWER(), toLowerCase()
LowerChar(c) == IF c = "A" THEN "a" ELSE IF c = "B" THEN "b" ELSE c
LowerStr(s) == [i \in 1..Len(s) |-> LowerChar(s[i])]

Prefix(s, n) == SubSeq(s, 1, IF Len(s) < n THEN Len(s) ELSE n)

RECURSIVE StripLeading(_, _)
StripLeading(s, c) ==
    IF s # <<>> /\ Head(s) = c THEN StripLeading(Tail(s), c) ELSE s

RECURSIVE StripTrailing(_, _)
StripTrailing(s, c) ==
    IF s # <<>> /\ s[Len(s)] = c THEN StripTrailing(SubSeq(s, 1, Len(s) - 1), c) ELSE s

\* TRIM(text): spaces off both ends; String.prototype.trim() on this alphabet
Trim(s) == StripTrailing(StripLeading(s, " "), " ")

RECURSIVE SkipNonAlnum(_)
SkipNonAlnum(s) ==
    IF s # <<>> /\ Head(s) \notin LowerAlnum THEN SkipNonAlnum(Tail(s)) ELSE s

\* REGEXP_REPLACE(handle, '[^a-z0-9]+', '-', 'g')
RECURSIVE ReplaceNonAlnumRuns(_)
ReplaceNonAlnumRuns(s) ==
    IF s = <<>> THEN <<>>
    ELSE IF Head(s) \in LowerAlnum THEN <<Head(s)>> \o ReplaceNonAlnumRuns(Tail(s))
    ELSE <<"-">> \o ReplaceNonAlnumRuns(SkipNonAlnum(s))

\* REGEXP_REPLACE(handle, '-+', '-', 'g')
RECURSIVE CollapseHyphens(_)
CollapseHyphens(s) ==
    IF s = <<>> THEN <<>>
    ELSE IF Head(s) = "-" THEN <<"-">> \o CollapseHyphens(StripLeading(s, "-"))
    ELSE <<Head(s)>> \o CollapseHyphens(Tail(s))

\* REGEXP_REPLACE(handle, '-$', '', 'g'): one hyphen off the end
DropOneTrailingHyphen_Kept(s) == s

DropOneTrailingHyphen(s) ==
    IF s # <<>> /\ s[Len(s)] = "-" THEN SubSeq(s, 1, Len(s) - 1) ELSE s

\* generate_handle(input_name)
generate_handle(input_name) ==
    LET h1 == LowerStr(Trim(input_name))
        h2 == ReplaceNonAlnumRuns(h1)
        h3 == StripTrailing(StripLeading(h2, "-"), "-")
        h4 == CollapseHyphens(h3)
        h5 == Prefix(h4, HandleMaxLen)
    IN DropOneTrailingHyphen(h5)

\* handleize(name), lib/utils
handleize(name) ==
    LET handle == [i \in 1..Len(name) |->
                      IF LowerChar(name[i]) = " " THEN "-" ELSE LowerChar(name[i])]
        cleanHandle == SelectSeq(handle, LAMBDA c : c \in LowerAlnum \cup {"-"})
    IN Prefix(cleanHandle, HandleizeMaxLen)

\* base_handle || '-' || counter
RECURSIVE IntToStr(_)
IntToStr(n) ==
    IF n < 10 THEN <<Digit[n + 1]>> ELSE IntToStr(n \div 10) \o <<Digit[(n % 10) + 1]>>

\* CHECK (LENGTH(TRIM(name)) > 0), CHECK (LENGTH(TRIM(handle)) > 0)
NotEmpty(s) == Len(Trim(s)) > 0

\* CHECK (handle ~ '^[a-z0-9]([a-z0-9-]*[a-z0-9])?$')
vaults_handle_format(h) ==
    /\ Len(h) > 0
    /\ h[1] \in LowerAlnum
    /\ h[Len(h)] \in LowerAlnum
    /\ \A i \in 1..Len(h) : h[i] \in LowerAlnum \cup {"-"}

\* ------------------------------------------------ handles: the functions applied
\* characters a name is typed from: a letter in both cases, a digit, hyphen,
\* space, and "!" for every other character
NameChars == {"a", "A", "1", "-", " ", "!"}

RECURSIVE StringsUpTo(_)
StringsUpTo(n) ==
    IF n = 0 THEN {<<>>}
    ELSE LET shorter == StringsUpTo(n - 1)
         IN shorter \cup {Append(s, c) : s \in {x \in shorter : Len(x) = n - 1}, c \in NameChars}

Pad(n) == [i \in 1..n |-> "a"]

\* short names, and names that reach past the lengths the two functions cut at
HandleInputs ==
    LET tails == StringsUpTo(MaxTail)
    IN tails
       \cup {Pad(HandleMaxLen - 1) \o t : t \in tails}
       \cup {Pad(HandleizeMaxLen - 1) \o t : t \in tails}

NoCall == [fn |-> "", input |-> <<>>, output |-> <<>>]

\* SELECT generate_handle(input)
Call_generate_handle ==
    /\ call.fn = ""
    /\ call' = [call EXCEPT !.fn = "generate_handle", !.output = generate_handle(call.input)]
    /\ UNCHANGED <<authVars, storeVars, payVars, spend_permissions, permission_history, onboarding>>

\* handleize(input)
Call_handleize ==
    /\ call.fn = ""
    /\ call' = [call EXCEPT !.fn = "handleize", !.output = handleize(call.input)]
    /\ UNCHANGED <<authVars, storeVars, payVars, spend_permissions, permission_history, onboarding>>

\* ------------------------------------------- /verify: the verifier's chain
\* parseInt(chainIdMatch[1]), of the digits /Chain ID: (\d+)/ matched
RECURSIVE parseInt(_)
parseInt(digits) ==
    IF digits = <<>> THEN 0
    ELSE parseInt(SubSeq(digits, 1, Len(digits) - 1)) * 10
         + (CHOOSE d \in 0..9 : Digit[d + 1] = digits[Len(digits)])

\* POST, lines 30-32 and 63-66: chainId is 8453 when the message has no
\* Chain ID field (no digits matched), chain is baseSepolia for 84532 and base
\* for every other number. The result is the id of the chain of the public
\* client that verifies the signature (base: 8453, baseSepolia: 84532).
POST_chain(chainIdMatch) ==
    LET chainId == IF chainIdMatch # <<>> THEN parseInt(chainIdMatch) ELSE 8453
    IN IF chainId = 84532 THEN 84532 ELSE 8453

\* the chain selection of POST /verify applied to a message's Chain ID field
Call_POST_chain ==
    /\ call.fn = ""
    /\ call' = [call EXCEPT !.fn = "POST.chain", !.output = <<POST_chain(call.input)>>]
    /\ UNCHANGED <<authVars, storeVars, payVars, spend_permissions, permission_history, onboarding>>

\* ------------------------------------------------- store: rows and policies
Users == {"u1", "u2"}   \* auth.uid() of the sessions
TxIds == 1..MaxTx
NoId == 0

\* names typed into the create-vault form / sent in a raw insert
Names == {<<"a">>, <<"A", "!">>, <<" ", "b">>, <<"!">>}
\* name and handle columns of a raw insert or update; <<>> is NULL / ''
RawNames == {<<"a">>}
RawHandles == {<<>>, <<"A">>}
PatchHandles == {<<"A">>}
\* what the create-vault form can submit
FormNames == Names \cup {<<>>}

\* CREATE POLICY "Users can view their own vaults" ... USING (auth.uid() = user_id)
VaultsSelectUsing(uid, row) == uid = row.user_id

\* CREATE POLICY "Users can create their own vaults" ... WITH CHECK (auth.uid() = user_id)
VaultsInsertCheck_Open(uid, row) == TRUE

VaultsInsertCheck(uid, row) == uid = row.user_id

\* CREATE POLICY "Users can update their own vaults" USING (...) WITH CHECK (...)
VaultsUpdateUsing(uid, row) == uid = row.user_id
VaultsUpdateCheck(uid, row) == uid = row.user_id

\* CREATE POLICY "Users can delete their own vaults" ... USING (auth.uid() = user_id)
VaultsDeleteUsing(uid, row) == uid = row.user_id

\* vault_id IN (SELECT id FROM vaults WHERE user_id = auth.uid()); the
\* sub-select runs under the caller's own SELECT policy on vaults
OwnVaultIds(uid, vs) ==
    {v.id : v \in {w \in vs : VaultsSelectUsing(uid, w) /\ w.user_id = uid}}

\* payments policies: SELECT, INSERT (WITH CHECK), UPDATE (USING, which is
\* also the check on the new row when no WITH CHECK is given), DELETE
PaymentsSelectUsing(uid, row, vs) == row.vault_id \in OwnVaultIds(uid, vs)
PaymentsInsertCheck(uid, row, vs) == row.vault_id \in OwnVaultIds(uid, vs)
PaymentsUpdateUsing(uid, row, vs) == row.vault_id \in OwnVaultIds(uid, vs)

PaymentsDeleteUsing_Open(uid, row, vs) == TRUE

PaymentsDeleteUsing(uid, row, vs) == row.vault_id \in OwnVaultIds(uid, vs)

\* CREATE UNIQUE INDEX idx_vaults_user_handle ON vaults(user_id, LOWER(handle))
idx_vaults_user_handle_Dropped(vs, new) == FALSE

\* the index of the schema the final one replaced: unique on LOWER(handle) alone
idx_vaults_handle_unique(vs, new) ==
    \E v \in vs : v.id # new.id /\ LowerStr(v.handle) = LowerStr(new.handle)

idx_vaults_user_handle(vs, new) ==
    \E v \in vs : /\ v.id # new.id
                  /\ v.user_id = new.user_id
                  /\ LowerStr(v.handle) = LowerStr(new.handle)

\* the WHILE EXISTS loop of ensure_vault_handle
RECURSIVE FirstFreeHandle(_, _, _, _)
FirstFreeHandle(vs, new, base_handle, counter) ==
    LET final_handle == IF counter = 0 THEN base_handle
                        ELSE base_handle \o <<"-">> \o IntToStr(counter)
    IN IF \E v \in vs : /\ v.user_id = new.user_id
                        /\ LowerStr(v.handle) = LowerStr(final_handle)
                        /\ v.id # new.id
       THEN FirstFreeHandle(vs, new, base_handle, counter + 1)
       ELSE final_handle

\* ensure_vault_handle(): BEFORE INSERT OR UPDATE ON vaults FOR EACH ROW
ensure_vault_handle(vs, new) ==
    IF Trim(new.handle) = <<>>
    THEN [new EXCEPT !.handle = FirstFreeHandle(vs, new, generate_handle(new.name), 0)]
    ELSE [new EXCEPT !.handle = generate_handle(new.handle)]

\* the table constraints of vaults, in the order Postgres reports them
VaultCheckError(new) ==
    IF ~NotEmpty(new.name) THEN "vaults_name_not_empty"
    ELSE IF ~NotEmpty(new.handle) THEN "vaults_handle_not_empty"
    ELSE IF ~vaults_handle_format(new.handle) THEN "vaults_handle_format"
    ELSE ""

IdleTx == [pc |-> "idle", op |-> "", app |-> "", caller |-> "", name |-> <<>>,
           new |-> [id |-> NoId, user_id |-> "", creator |-> "", name |-> <<>>,
                    handle |-> <<>>],
           free |-> FALSE, began |-> 0]

NoOp == [caller |-> "", table |-> "", op |-> "", target |-> NoId, foreign |-> FALSE,
         result |-> "", error |-> "", rows |-> {}, raced |-> FALSE,
         cascaded |-> {}, input |-> <<>>]

\* statements take the first free slot
FirstIdleTx == CHOOSE t \in TxIds \cup {MaxTx + 1} :
                  /\ t \in TxIds => tx[t].pc = "idle"
                  /\ \A u \in 1..(t - 1) : tx[u].pc # "idle"

\* rows of vaults an UPDATE or DELETE statement in flight holds locked
LockedVaultIds == {tx[t].new.id : t \in {u \in TxIds : tx[u].pc = "triggered" /\ tx[u].op = "update"}}

VaultOwner(vid) ==
    IF \E v \in vaults : v.id = vid
    THEN (CHOOSE v \in vaults : v.id = vid).user_id
    ELSE ""

\* ------------------------------------------------------- store: statements
\* INSERT INTO vaults, first half: uuid default, then the BEFORE trigger
InsertVaultBegin(t, c, owner, name, handle, app) ==
    /\ t = FirstIdleTx
    /\ nextId.vault <= MaxVaults
    /\ LET new0 == [id |-> nextId.vault, user_id |-> owner, creator |-> c,
                    name |-> name, handle |-> handle]
           new == ensure_vault_handle(vaults, new0)
       IN tx' = [tx EXCEPT ![t] =
                    [pc |-> "triggered", op |-> "insert", app |-> app, caller |-> c,
                     name |-> name, new |-> new,
                     free |-> ~idx_vaults_user_handle(vaults, new),
                     began |-> IF app = "createVault" THEN Len(createLog) ELSE 0]]
    /\ nextId' = [nextId EXCEPT !.vault = @ + 1]
    /\ UNCHANGED <<vaults, payments, lastOp, createLog, schema, authVars, libVars, payVars, spend_permissions, permission_history, onboarding>>

\* UPDATE vaults SET ... WHERE id = ..., first half: find the row the caller
\* may update, lock it, run the BEFORE trigger on the new version
UpdateVaultBegin(t, c, id, patch) ==
    /\ t = FirstIdleTx
    /\ id \notin LockedVaultIds
    /\ LET target == {v \in vaults : v.id = id /\ VaultsUpdateUsing(c, v)}
       IN IF target = {}
          THEN /\ lastOp' = [NoOp EXCEPT !.caller = c, !.table = "vaults",
                                !.op = "update", !.target = id,
                                !.foreign = (patch.user_id # "" /\ patch.user_id # c),
                                !.result = "zero"]
               /\ UNCHANGED tx
          ELSE LET old == CHOOSE v \in target : TRUE
                   new0 == [old EXCEPT
                              !.user_id = IF patch.user_id = "" THEN @ ELSE patch.user_id,
                              !.handle = IF patch.keepHandle THEN @ ELSE patch.handle]
                   new == ensure_vault_handle(vaults, new0)
               IN /\ tx' = [tx EXCEPT ![t] =
                            [pc |-> "triggered", op |-> "update", app |-> "raw",
                             caller |-> c, name |-> old.name, new |-> new,
                             free |-> ~idx_vaults_user_handle(vaults, new),
                             began |-> 0]]
                  /\ UNCHANGED lastOp
    /\ UNCHANGED <<vaults, payments, nextId, createLog, schema, authVars, libVars, payVars, spend_permissions, permission_history, onboarding>>

\* second half of INSERT / UPDATE on vaults: CHECK constraints, the policy's
\* WITH CHECK, the unique index; then the row is written, or the statement fails
CommitVaultWrite(t) ==
    /\ tx[t].pc = "triggered"
    /\ LET new == tx[t].new
           c == tx[t].caller
           policyOk == IF tx[t].op = "insert" THEN VaultsInsertCheck(c, new)
                       ELSE VaultsUpdateCheck(c, new)
           error == IF VaultCheckError(new) # "" THEN VaultCheckError(new)
                    ELSE IF ~policyOk THEN "row-level security"
                    ELSE IF idx_vaults_user_handle(vaults, new) THEN "idx_vaults_user_handle"
                    ELSE ""
       IN /\ vaults' = IF error # "" THEN vaults
                       ELSE {v \in vaults : v.id # new.id} \cup {new}
          /\ lastOp' = [NoOp EXCEPT !.caller = c, !.table = "vaults", !.op = tx[t].op,
                            !.target = new.id,
                            !.foreign = (new.user_id # c),
                            !.result = IF error = "" THEN "ok" ELSE "rejected",
                            !.error = error,
                            !.rows = IF error = "" THEN {new.id} ELSE {},
                            !.raced = (error = "idx_vaults_user_handle" /\ tx[t].free)]
          /\ createLog' = IF tx[t].app = "createVault"
                          THEN Append(createLog,
                                 [user |-> c, name |-> tx[t].name, ok |-> (error = ""),
                                  handle |-> IF error = "" THEN new.handle ELSE <<>>,
                                  began |-> tx[t].began])
                          ELSE createLog
    /\ tx' = [tx EXCEPT ![t] = IdleTx]
    /\ UNCHANGED <<payments, nextId, schema, authVars, libVars, payVars, spend_permissions, permission_history, onboarding>>

\* DELETE FROM vaults WHERE id = ...; payments.vault_id is ON DELETE CASCADE
DeleteVault_NoCascade(c, id) ==
    /\ id \in {v.id : v \in vaults}
    /\ id \notin LockedVaultIds
    /\ LET gone == {v \in vaults : v.id = id /\ VaultsDeleteUsing(c, v)}
       IN /\ vaults' = vaults \ gone
          /\ payments' = payments
          /\ lastOp' = [NoOp EXCEPT !.caller = c, !.table = "vaults", !.op = "delete",
                            !.target = id,
                            !.result = IF gone = {} THEN "zero" ELSE "ok",
                            !.rows = {v.id : v \in gone}]
    /\ UNCHANGED <<nextId, tx, createLog, schema, authVars, libVars, payVars, spend_permissions, permission_history, onboarding>>

DeleteVault(c, id) ==
    /\ id \in {v.id : v \in vaults}
    /\ id \notin LockedVaultIds
    /\ LET gone == {v \in vaults : v.id = id /\ VaultsDeleteUsing(c, v)}
           orphans == {p \in payments : p.vault_id \in {v.id : v \in gone}}
       IN /\ vaults' = vaults \ gone
          /\ payments' = payments \ orphans
          /\ lastOp' = [NoOp EXCEPT !.caller = c, !.table = "vaults", !.op = "delete",
                            !.target = id,
                            !.result = IF gone = {} THEN "zero" ELSE "ok",
                            !.rows = {v.id : v \in gone},
                            !.cascaded = {p.id : p \in orphans}]
    /\ UNCHANGED <<nextId, tx, createLog, schema, authVars, libVars, payVars, spend_permissions, permission_history, onboarding>>

\* SELECT * FROM vaults
SelectVaults(c) ==
    /\ lastOp' = [NoOp EXCEPT !.caller = c, !.table = "vaults", !.op = "select",
                      !.result = "ok",
                      !.rows = {v.id : v \in {w \in vaults : VaultsSelectUsing(c, w)}}]
    /\ UNCHANGED <<vaults, payments, nextId, tx, createLog, schema, authVars, libVars, payVars, spend_permissions, permission_history, onboarding>>

\* INSERT INTO payments (vault_id, ..., status 'active')
InsertPayment(c, vault_id) ==
    /\ nextId.payment <= MaxPayments
    /\ LET new == [id |-> nextId.payment, vault_id |-> vault_id, status |-> "active",
                   last_payment_date |-> 0, amount |-> <<"0">>,
                   next_execution_date |-> 0, executed_count |-> 0,
                   transaction_hashes |-> <<>>, series_id |-> NoId]
           error == IF ~PaymentsInsertCheck(c, new, vaults) THEN "row-level security"
                    ELSE IF vault_id \notin {v.id : v \in vaults} THEN "payments_vault_id_fkey"
                    ELSE ""
       IN /\ payments' = IF error = "" THEN payments \cup {new} ELSE payments
          /\ lastOp' = [NoOp EXCEPT !.caller = c, !.table = "payments", !.op = "insert",
                            !.target = new.id,
                            !.foreign = (VaultOwner(vault_id) # c),
                            !.result = IF error = "" THEN "ok" ELSE "rejected",
                            !.error = error,
                            !.rows = IF error = "" THEN {new.id} ELSE {}]
    /\ nextId' = [nextId EXCEPT !.payment = @ + 1]
    /\ UNCHANGED <<vaults, tx, createLog, schema, authVars, libVars, payVars, spend_permissions, permission_history, onboarding>>

\* UPDATE payments SET ... WHERE id = ...
UpdatePayment(c, id, patch) ==
    /\ id \in {p.id : p \in payments}
    /\ LET target == {p \in payments : p.id = id /\ PaymentsUpdateUsing(c, p, vaults)}
           old == CHOOSE p \in target : TRUE
           new == [old EXCEPT
                     !.vault_id = IF patch.vault_id = NoId THEN @ ELSE patch.vault_id,
                     !.status = IF patch.status = "" THEN @ ELSE patch.status,
                     !.last_payment_date = IF patch.paid THEN 1 ELSE @]
           error == IF target = {} THEN ""
                    ELSE IF ~PaymentsUpdateUsing(c, new, vaults) THEN "row-level security"
                    ELSE IF new.vault_id \notin {v.id : v \in vaults}
                         THEN "payments_vault_id_fkey"
                    ELSE ""
       IN /\ payments' = IF target = {} \/ error # "" THEN payments
                         ELSE (payments \ target) \cup {new}
          /\ lastOp' = [NoOp EXCEPT !.caller = c, !.table = "payments", !.op = "update",
                            !.target = id,
                            !.foreign = (patch.vault_id # NoId
                                         /\ VaultOwner(patch.vault_id) # c),
                            !.result = IF target = {} THEN "zero"
                                       ELSE IF error = "" THEN "ok" ELSE "rejected",
                            !.error = error,
                            !.rows = IF target = {} \/ error # "" THEN {} ELSE {id}]
    /\ UNCHANGED <<vaults, nextId, tx, createLog, schema, authVars, libVars, payVars, spend_permissions, permission_history, onboarding>>

\* DELETE FROM payments WHERE id = ...
DeletePayment(c, id) ==
    /\ id \in {p.id : p \in payments}
    /\ LET gone == {p \in payments : p.id = id /\ PaymentsDeleteUsing(c, p, vaults)}
       IN /\ payments' = payments \ gone
          /\ lastOp' = [NoOp EXCEPT !.caller = c, !.table = "payments", !.op = "delete",
                            !.target = id,
                            !.result = IF gone = {} THEN "zero" ELSE "ok",
                            !.rows = {p.id : p \in gone}]
    /\ UNCHANGED <<vaults, nextId, tx, createLog, schema, authVars, libVars, payVars, spend_permissions, permission_history, onboarding>>

\* SELECT * FROM payments
SelectPayments(c) ==
    /\ lastOp' = [NoOp EXCEPT !.caller = c, !.table = "payments", !.op = "select",
                      !.result = "ok",
                      !.rows = {p.id : p \in {q \in payments :
                                                PaymentsSelectUsing(c, q, vaults)}}]
    /\ UNCHANGED <<vaults, payments, nextId, tx, createLog, schema, authVars, libVars, payVars, spend_permissions, permission_history, onboarding>>

\* what a raw UPDATE of a vault sets: a new handle, or a new owner
VaultPatches ==
    [user_id : {""}, keepHandle : {FALSE}, handle : PatchHandles]
    \cup [user_id : Users, keepHandle : {TRUE}, handle : {<<>>}]

\* what a raw UPDATE of a payment sets
MovePatches == [vault_id : 1..MaxVaults, status : {""}, paid : {FALSE}]
PaidPatches == [vault_id : {NoId}, status : {"completed"}, paid : {TRUE}]

\* ------------------------------------------------ createPaymentSeries
\* characters an amount is typed from: digits, minus, the decimal point, and
\* "x" for every other character
AmountChars == {"0", "1", "-", ".", "x"}
IsDigit(c) == \E i \in 1..10 : Digit[i] = c
\* a string of digits
IsNaturalString(a) == a # <<>> /\ \A i \in 1..Len(a) : IsDigit(a[i])

RECURSIVE AmountsUpTo(_)
AmountsUpTo(n) ==
    IF n = 0 THEN {<<>>}
    ELSE LET shorter == AmountsUpTo(n - 1)
         IN shorter \cup {Append(a, c) : a \in {x \in shorter : Len(x) = n - 1},
                                         c \in AmountChars}

\* short amounts, and amounts with more decimals than the token has
AmountInputs ==
    LET tails == AmountsUpTo(MaxAmountTail)
    IN tails \cup {<<"0", ".", "0", "0", "0", "0", "0", "0">> \o t : t \in tails}

RECURSIVE LeadingDigits(_)
LeadingDigits(s) ==
    IF s # <<>> /\ IsDigit(Head(s)) THEN <<Head(s)>> \o LeadingDigits(Tail(s)) ELSE <<>>

\* parseFloat(text): the longest prefix that is a decimal literal, NaN when
\* there is none (no exponent and no white space in these inputs)
parseFloat(text) ==
    LET neg == text # <<>> /\ Head(text) = "-"
        body == IF neg THEN Tail(text) ELSE text
        int == LeadingDigits(body)
        rest == SubSeq(body, Len(int) + 1, Len(body))
        frac == IF rest # <<>> /\ Head(rest) = "." THEN LeadingDigits(Tail(rest)) ELSE <<>>
    IN [nan |-> (int = <<>> /\ frac = <<>>), neg |-> neg, int |-> int, frac |-> frac]

TokenDecimals == 6

\* (x * 1_000_000).toString(), the product taken exactly: the decimal point
\* moves six places; a double's rounding error is left out
TimesMillionToString(x) ==
    IF x.nan THEN <<"N", "a", "N">>
    ELSE LET padded == x.frac \o [i \in 1..TokenDecimals |-> "0"]
             whole == StripLeading(x.int \o SubSeq(padded, 1, TokenDecimals), "0")
             part == StripTrailing(SubSeq(x.frac, TokenDecimals + 1, Len(x.frac)), "0")
             digits == IF whole = <<>> THEN <<"0">> ELSE whole
             sign == IF x.neg /\ (whole # <<>> \/ part # <<>>) THEN <<"-">> ELSE <<>>
         IN sign \o digits \o (IF part = <<>> THEN <<>> ELSE <<".">> \o part)

\* line 1125: numberOfPayments, in halves like number_of_payments
\* (z.number().min(1).max(100) takes 1.5 as well as 2)
numberOfPayments_IgnoringNone(frequency, number_of_payments) ==
    number_of_payments

numberOfPayments(frequency, number_of_payments) ==
    IF frequency = "none" THEN 2 ELSE number_of_payments

\* createPaymentSeries(input): zod (amount: min(1)), the vault looked up under
\* the caller's policies, the amount converted, then one row pushed for every
\* i = 0, 1, ... with i < numberOfPayments, and all rows inserted by one statement
createPaymentSeries(c, vault_id, amount, frequency, number_of_payments) ==
    LET count == Cardinality({i \in 0..(MaxPayments + 1) :
                    2 * i < numberOfPayments(frequency, number_of_payments)})
        seriesId == nextId.payment
        visible == {v \in vaults : v.id = vault_id /\ VaultsSelectUsing(c, v)}
        amountInSmallestUnit == TimesMillionToString(parseFloat(amount))
        rows == {[id |-> nextId.payment + i, vault_id |-> vault_id,
                  status |-> "active", last_payment_date |-> 0,
                  amount |-> amountInSmallestUnit,
                  next_execution_date |-> 1, executed_count |-> 0,
                  transaction_hashes |-> <<>>,
                  series_id |-> IF numberOfPayments(frequency, number_of_payments) > 2
                                THEN seriesId ELSE NoId] : i \in 0..(count - 1)}
        error == IF Len(amount) < 1 THEN "Amount is required"
                 ELSE IF visible = {} THEN "Vault not found"
                 ELSE IF \E row \in rows : ~PaymentsInsertCheck(c, row, vaults)
                      THEN "row-level security"
                 ELSE ""
    IN /\ nextId.payment + count - 1 <= MaxPayments
       /\ payments' = IF error = "" THEN payments \cup rows ELSE payments
       /\ nextId' = IF error = "" THEN [nextId EXCEPT !.payment = @ + count] ELSE nextId
       /\ lastOp' = [NoOp EXCEPT !.caller = c, !.table = "payments",
                         !.op = "createPaymentSeries", !.target = nextId.payment,
                         !.foreign = (VaultOwner(vault_id) # c),
                         !.result = IF error = "" THEN "ok" ELSE "rejected",
                         !.error = error,
                         !.rows = IF error = "" THEN {row.id : row \in rows} ELSE {},
                         !.input = <<frequency, number_of_payments>>]
       /\ UNCHANGED <<vaults, tx, createLog, schema, authVars, libVars, payVars, spend_permissions, permission_history, onboarding>>

\* ------------------------------------- spend_permissions, permission_history
\* CREATE TYPE permission_status AS ENUM (...)
permission_status == {"pending", "active", "revoked", "expired"}

\* the BEFORE UPDATE trigger function: the history rows one row's update
\* appends. transaction_hash is NEW.approval_tx_hash or NEW.revocation_tx_hash
\* ("null", "ok" or "bad": permission_history_tx_hash_format accepts the first two)
create_permission_history_on_status_change_Always(old, new, tx_hash) ==
    <<[permission_id |-> new.id,
       action |-> "updated",
       transaction_hash |-> "null",
       old_status |-> old.status, new_status |-> new.status]>>

create_permission_history_on_status_change(old, new, tx_hash) ==
    IF old.status # new.status
    THEN <<[permission_id |-> new.id,
            action |-> CASE new.status = "active" -> "granted"
                         [] new.status = "revoked" -> "revoked"
                         [] new.status = "expired" -> "expired"
                         [] OTHER -> "updated",
            transaction_hash |-> IF new.status \in {"active", "revoked"} THEN tx_hash
                                 ELSE "null",
            old_status |-> old.status, new_status |-> new.status]>>
    ELSE <<>>

\* INSERT INTO spend_permissions by c, for a subvault of a vault of owner: the
\* INSERT policy's WITH CHECK; no trigger fires on INSERT
InsertPermission(c, owner, status) ==
    /\ Cardinality(spend_permissions) < MaxPermissions
    /\ owner = c
    /\ LET id == CHOOSE i \in 1..MaxPermissions :
                    /\ \A sp \in spend_permissions : sp.id # i
                    /\ \A j \in 1..(i - 1) : \E sp \in spend_permissions : sp.id = j
       IN spend_permissions' = spend_permissions \cup
                {[id |-> id, user_id |-> owner, status |-> status]}
    /\ UNCHANGED <<permission_history, authVars, storeVars, libVars, payVars, onboarding>>

\* UPDATE spend_permissions SET ... WHERE id = id, by c: the row the UPDATE
\* policy shows, the trigger's INSERT into permission_history (its CHECK
\* constraint fails the whole statement), then the new row
UpdatePermission(c, id, status, tx_hash) ==
    /\ Len(permission_history) < MaxHistory
    /\ \E old \in spend_permissions :
          /\ old.id = id /\ old.user_id = c
          /\ LET new == [old EXCEPT !.status = status]
                 logged == create_permission_history_on_status_change(old, new, tx_hash)
                 failed == \E i \in 1..Len(logged) : logged[i].transaction_hash = "bad"
             IN /\ spend_permissions' = IF failed THEN spend_permissions
                                        ELSE (spend_permissions \ {old}) \cup {new}
                /\ permission_history' = IF failed THEN permission_history
                                         ELSE permission_history \o logged
    /\ UNCHANGED <<authVars, storeVars, libVars, payVars, onboarding>>

\* DELETE FROM spend_permissions WHERE id = id, by c; permission_id REFERENCES
\* spend_permissions(id) ON DELETE CASCADE
DeletePermission(c, id) ==
    /\ \E sp \in spend_permissions : sp.id = id /\ sp.user_id = c
    /\ spend_permissions' = {sp \in spend_permissions : sp.id # id}
    /\ permission_history' = SelectSeq(permission_history, LAMBDA h : h.permission_id # id)
    /\ UNCHANGED <<authVars, storeVars, libVars, payVars, onboarding>>

\* ------------------------------------------------------- onboarding
\* OnboardingProvider's and OnboardingModal's useState initial values,
\* OnboardingClient's ref, and the page's props before it is rendered;
\* onboarding_complete is the column of the session user's profile
NewOnboarding ==
    [currentStep |-> "create-vault", completedSteps |-> {"sub-account"},
     isOnboarding |-> FALSE, initialized |-> FALSE,
     showVaultModal |-> FALSE, showPaymentModal |-> FALSE, firstVaultId |-> NoId,
     onboarding_complete |-> FALSE]

\* completeStep(step): the step recorded, currentStep moved to the one after it
completeStep_NotRecorded(o, step) ==
    LET stepOrder == <<"sub-account", "create-vault", "create-payment", "complete">>
        currentIndex == CHOOSE i \in 1..4 : stepOrder[i] = step
    IN [o EXCEPT !.currentStep = IF currentIndex < 4 THEN stepOrder[currentIndex + 1] ELSE @]

completeStep(o, step) ==
    LET stepOrder == <<"sub-account", "create-vault", "create-payment", "complete">>
        currentIndex == CHOOSE i \in 1..4 : stepOrder[i] = step
    IN [o EXCEPT !.completedSteps = @ \cup {step},
                 !.currentStep = IF currentIndex < 4 THEN stepOrder[currentIndex + 1] ELSE @]

\* OnboardingClient's effect, once per mount, for a user who needs onboarding
OnboardingClient(needsOnboarding, hasSubAccount, vaultCount) ==
    /\ ~onboarding.initialized /\ needsOnboarding
    /\ needsOnboarding = ~onboarding.onboarding_complete
    /\ LET started == [onboarding EXCEPT !.initialized = TRUE, !.isOnboarding = TRUE]
           sub == IF hasSubAccount THEN completeStep(started, "sub-account") ELSE started
       IN onboarding' = IF vaultCount > 0 THEN completeStep(sub, "create-vault") ELSE sub
    /\ UNCHANGED <<authVars, storeVars, libVars, payVars, spend_permissions, permission_history>>

\* the Create Vault button of step "create-vault", and the modal closed
setShowVaultModal(open) ==
    /\ onboarding.showVaultModal # open
    /\ open => (onboarding.isOnboarding /\ onboarding.currentStep = "create-vault")
    /\ onboarding' = [onboarding EXCEPT !.showVaultModal = open]
    /\ UNCHANGED <<authVars, storeVars, libVars, payVars, spend_permissions, permission_history>>

\* handleVaultCreated, CreateVaultModal's onSuccess: createVault returned a
\* vault; getVaults' first row becomes firstVaultId
handleVaultCreated ==
    /\ onboarding.showVaultModal
    /\ createLog # <<>> /\ createLog[Len(createLog)].ok
    /\ LET own == OwnVaultIds(createLog[Len(createLog)].user, vaults)
       IN onboarding' = [completeStep(onboarding, "create-vault") EXCEPT
                            !.showVaultModal = FALSE,
                            !.firstVaultId = IF own = {} THEN @
                                             ELSE CHOOSE i \in own : \A j \in own : i <= j]
    /\ UNCHANGED <<authVars, storeVars, libVars, payVars, spend_permissions, permission_history>>

\* the Create Payment button of step "create-payment", and the modal closed
setShowPaymentModal(open) ==
    /\ onboarding.showPaymentModal # open
    /\ open => (onboarding.isOnboarding /\ onboarding.currentStep = "create-payment")
    /\ onboarding' = [onboarding EXCEPT !.showPaymentModal = open]
    /\ UNCHANGED <<authVars, storeVars, libVars, payVars, spend_permissions, permission_history>>

\* handlePaymentCreated: CreatePaymentModal's onSuccess (skipped = FALSE, the
\* payment was inserted), or the Skip for Now button of step "create-payment"
handlePaymentCreated(skipped) ==
    /\ IF skipped
       THEN onboarding.isOnboarding /\ onboarding.currentStep = "create-payment"
       ELSE /\ onboarding.showPaymentModal
            /\ lastOp.op = "createPaymentSeries" /\ lastOp.result = "ok"
    /\ onboarding' = [completeStep(onboarding, "create-payment") EXCEPT
                         !.showPaymentModal = FALSE]
    /\ UNCHANGED <<authVars, storeVars, libVars, payVars, spend_permissions, permission_history>>

\* handleComplete, the Get Started button of step "complete":
\* completeOnboarding() sets onboarding_complete, or returns an error
handleComplete(failed) ==
    /\ onboarding.isOnboarding /\ onboarding.currentStep = "complete"
    /\ onboarding' = IF failed THEN onboarding
                     ELSE [onboarding EXCEPT !.isOnboarding = FALSE,
                                             !.onboarding_complete = TRUE]
    /\ UNCHANGED <<authVars, storeVars, libVars, payVars, spend_permissions, permission_history>>

\* ------------------------------------------------------- handlePayNow
PayIds == 1..MaxPays
IdlePay == [pc |-> "idle", caller |-> "", payment |-> NoId, mounted |-> FALSE,
            walletOk |-> FALSE, resent |-> FALSE, txHash |-> FALSE,
            existingHashes |-> <<>>, currentPayment |-> 0, stored |-> FALSE,
            wrote |-> FALSE]
\* the user signed in on the payments page
PageUsers == {"u1"}
\* no PaymentsCalendar is mounted
NoCalendar == [user |-> "", payments |-> {}, payingPaymentId |-> NoId]
\* amounts of the payments paid: one the wallet call can carry, one it cannot
PayAmounts == {<<"1">>, <<"x">>}

\* BigInt(text) returns: an optional sign and digits; it throws otherwise
BigIntParses(text) ==
    \/ IsNaturalString(text)
    \/ Len(text) > 1 /\ Head(text) = "-" /\ IsNaturalString(Tail(text))

\* PaymentsCalendar mounts for the session of c with the payments the server
\* selected for c; the state of a component mounted before is gone, and the
\* handlePayNow calls it started go on without it
PaymentsCalendar(c) ==
    /\ calendar' = [user |-> c,
                    payments |-> {p \in payments : PaymentsSelectUsing(c, p, vaults)},
                    payingPaymentId |-> NoId]
    /\ calendar' # calendar
    /\ pay' = [k \in PayIds |-> IF pay[k].pc \in {"idle", "done"} THEN pay[k]
                                ELSE [pay[k] EXCEPT !.mounted = FALSE]]
    /\ UNCHANGED <<authVars, storeVars, libVars, spend_permissions, permission_history, onboarding>>

\* finally { setPayingPaymentId(null) }, lines 134-136, of call k
finally(k, cal) ==
    IF pay[k].mounted THEN [cal EXCEPT !.payingPaymentId = NoId] ELSE cal

\* onPaymentUpdate(payment.id, {next_execution_date: null, status: 'completed'}),
\* lines 124-127 and PaymentsCalendar's setPayments
onPaymentUpdate(k, cal) ==
    IF pay[k].mounted
    THEN [cal EXCEPT !.payments =
            {IF p.id = pay[k].payment
             THEN [p EXCEPT !.next_execution_date = 0, !.status = "completed"]
             ELSE p : p \in cal.payments}]
    ELSE cal

\* handlePayNow(payment), lines 39-75: a click on the Pay button of a payment,
\* which is rendered for status "active" and disabled while payingPaymentId is
\* the payment's id; encodeFunctionData with BigInt(payment.amount) inside the try
handlePayNow_Start(k, c, id) ==
    /\ pay[k].pc = "idle"
    /\ \A j \in 1..(k - 1) : pay[j].pc # "idle"
    /\ c = calendar.user
    /\ calendar.payingPaymentId # id
    /\ \E p \in calendar.payments :
          /\ p.id = id /\ p.status = "active"
          /\ pay' = [pay EXCEPT ![k] =
                [IdlePay EXCEPT !.caller = c, !.payment = id,
                                !.mounted = BigIntParses(p.amount),
                                !.pc = IF BigIntParses(p.amount) THEN "wallet" ELSE "done"]]
          /\ calendar' = [calendar EXCEPT !.payingPaymentId =
                               IF BigIntParses(p.amount) THEN id ELSE NoId]
    /\ UNCHANGED <<authVars, storeVars, libVars, spend_permissions, permission_history, onboarding>>

\* lines 83-99 and the catch at 128-133: wallet_sendCalls returns a calls id,
\* or throws and nothing more is done. resent: the request is issued after an
\* earlier one for the same payment had returned
handlePayNow_SendCalls_Uncaught(k, returned) ==
    /\ pay[k].pc = "wallet"
    /\ pay' = [pay EXCEPT ![k].walletOk = returned, ![k].pc = "status",
                          ![k].resent = \E j \in PayIds : /\ j # k
                                                          /\ pay[j].payment = pay[k].payment
                                                          /\ pay[j].walletOk]
    /\ UNCHANGED <<calendar, authVars, storeVars, libVars, spend_permissions, permission_history, onboarding>>

handlePayNow_SendCalls(k, returned) ==
    /\ pay[k].pc = "wallet"
    /\ pay' = [pay EXCEPT ![k].walletOk = returned,
                          ![k].pc = IF returned THEN "status" ELSE "done",
                          ![k].resent = \E j \in PayIds : /\ j # k
                                                          /\ pay[j].payment = pay[k].payment
                                                          /\ pay[j].walletOk]
    /\ calendar' = IF returned THEN calendar ELSE finally(k, calendar)
    /\ UNCHANGED <<authVars, storeVars, libVars, spend_permissions, permission_history, onboarding>>

\* lines 102-108: wallet_getCallsStatus throws, or answers with or without a
\* receipt's transaction hash
handlePayNow_GetCallsStatus(k, outcome) ==
    /\ pay[k].pc = "status"
    /\ pay' = [pay EXCEPT ![k].txHash = (outcome = "hash"),
                          ![k].pc = IF outcome = "throws" THEN "done"
                                    ELSE IF outcome = "hash" THEN "store" ELSE "update"]
    /\ calendar' = IF outcome = "throws" THEN finally(k, calendar) ELSE calendar
    /\ UNCHANGED <<authVars, storeVars, libVars, spend_permissions, permission_history, onboarding>>

\* storePaymentTransaction(id, txHash) called on its own, by the session of c
storePaymentTransaction(k, c, id) ==
    /\ pay[k].pc = "idle"
    /\ \A j \in 1..(k - 1) : pay[j].pc # "idle"
    /\ \E p \in payments : p.id = id
    /\ pay' = [pay EXCEPT ![k] = [IdlePay EXCEPT !.caller = c, !.payment = id,
                                                !.txHash = TRUE, !.pc = "store"]]
    /\ UNCHANGED <<calendar, authVars, storeVars, libVars, spend_permissions, permission_history, onboarding>>

\* storePaymentTransaction(id, txHash), lines 1005-1014: SELECT
\* transaction_hashes ... .single(); without a row the action returns the
\* error, which handlePayNow does not look at
storePaymentTransaction_SelectHashes(k) ==
    /\ pay[k].pc = "store"
    /\ LET rows == {p \in payments : p.id = pay[k].payment
                                      /\ PaymentsSelectUsing(pay[k].caller, p, vaults)}
       IN pay' = [pay EXCEPT
                    ![k].existingHashes =
                        IF rows = {} THEN <<>>
                        ELSE (CHOOSE p \in rows : TRUE).transaction_hashes,
                    \* handlePayNow goes on to its next call
                    ![k].pc = IF rows # {} THEN "select"
                              ELSE IF pay[k].walletOk THEN "update" ELSE "done"]
    /\ UNCHANGED <<calendar, authVars, storeVars, libVars, spend_permissions, permission_history, onboarding>>

\* lines 1020-1025: SELECT executed_count ... .single(), 0 without a row
storePaymentTransaction_SelectCount(k) ==
    /\ pay[k].pc = "select"
    /\ LET rows == {p \in payments : p.id = pay[k].payment
                                      /\ PaymentsSelectUsing(pay[k].caller, p, vaults)}
       IN pay' = [pay EXCEPT
                    ![k].currentPayment =
                        IF rows = {} THEN 0 ELSE (CHOOSE p \in rows : TRUE).executed_count,
                    ![k].pc = "write"]
    /\ UNCHANGED <<calendar, authVars, storeVars, libVars, spend_permissions, permission_history, onboarding>>

\* lines 1027-1041: UPDATE payments SET transaction_hashes = [...existingHashes,
\* txHash], last_payment_date, executed_count WHERE id = id; success is
\* returned when the statement raised no error. Call k's hash is k.
storePaymentTransaction_Update(k) ==
    /\ pay[k].pc = "write"
    /\ LET target == {p \in payments : p.id = pay[k].payment
                                        /\ PaymentsUpdateUsing(pay[k].caller, p, vaults)}
       IN payments' = (payments \ target) \cup
                {[p EXCEPT !.transaction_hashes = Append(pay[k].existingHashes, k),
                           !.last_payment_date = 1,
                           !.executed_count = pay[k].currentPayment + 1] : p \in target}
    /\ pay' = [pay EXCEPT ![k].pc = IF pay[k].walletOk THEN "update" ELSE "done",
                          ![k].stored = TRUE,
                          ![k].existingHashes = <<>>, ![k].currentPayment = 0]
    /\ UNCHANGED <<calendar, vaults, nextId, tx, lastOp, createLog, schema,
                   authVars, libVars, spend_permissions, permission_history, onboarding>>

\* updatePaymentExecutionDate(id, nextDate), lines 1057-1064: the rows written
\* by UPDATE payments SET next_execution_date, status, executed_count WHERE id = id
updatePaymentExecutionDate_StatusKept(c, id, nextDate) ==
    {[p EXCEPT !.next_execution_date = nextDate,
               !.executed_count = IF nextDate # 0 THEN 1 ELSE 0] :
        p \in {q \in payments : q.id = id /\ PaymentsUpdateUsing(c, q, vaults)}}

updatePaymentExecutionDate(c, id, nextDate) ==
    {[p EXCEPT !.next_execution_date = nextDate,
               !.status = IF nextDate # 0 THEN "active" ELSE "completed",
               !.executed_count = 1] :
        p \in {q \in payments : q.id = id /\ PaymentsUpdateUsing(c, q, vaults)}}

\* line 121, await updatePaymentExecutionDate(payment.id, null), whose result
\* is not looked at; then onPaymentUpdate and the finally block
handlePayNow_UpdateExecutionDate(k) ==
    /\ pay[k].pc = "update"
    /\ LET written == updatePaymentExecutionDate(pay[k].caller, pay[k].payment, 0)
       IN /\ payments' = {p \in payments : \A w \in written : w.id # p.id} \cup written
          /\ pay' = [pay EXCEPT ![k].pc = "done", ![k].wrote = (written # {})]
    /\ calendar' = finally(k, onPaymentUpdate(k, calendar))
    /\ UNCHANGED <<vaults, nextId, tx, lastOp, createLog, schema,
                   authVars, libVars, spend_permissions, permission_history, onboarding>>

\* a recurring payment moved to its next date, or a payment marked completed,
\* by the server action called on its own (payments-calendar.tsx:150, 160)
reschedule(c, id, nextDate) ==
    /\ \E p \in payments : p.id = id
    /\ LET written == updatePaymentExecutionDate(c, id, nextDate)
       IN payments' = {p \in payments : \A w \in written : w.id # p.id} \cup written
    /\ UNCHANGED <<vaults, nextId, tx, lastOp, createLog, schema,
                   authVars, libVars, payVars, spend_permissions, permission_history, onboarding>>

\* createVault(input): zod (min(1) then trim), then the insert with
\* handle: handleize(validated.name)
createVault(t, user, input_name) ==
    /\ Len(createLog) + Cardinality({u \in TxIds : tx[u].app = "createVault"}) < MaxCreates
    /\ IF Len(input_name) < 1
       THEN /\ t = FirstIdleTx
            /\ createLog' = Append(createLog,
                    [user |-> user, name |-> input_name, ok |-> FALSE, handle |-> <<>>,
                     began |-> Len(createLog)])
            /\ UNCHANGED <<vaults, payments, nextId, tx, lastOp, schema, authVars, libVars, payVars, spend_permissions, permission_history, onboarding>>
       ELSE LET name == Trim(input_name)
            IN InsertVaultBegin(t, user, user, name, handleize(name), "createVault")

\* updateVault(id, input) with no name in the input: name and handle are
\* undefined and left out of the UPDATE, which sets emoji and description on
\* the caller's row; the BEFORE UPDATE trigger runs on the row as stored
updateVault(t, c, id) ==
    UpdateVaultBegin(t, c, id, [user_id |-> "", keepHandle |-> TRUE, handle |-> <<>>])

\* ------------------------------------------------------------ read models
ViewNames == {"active_payments_view", "vault_spending_summary"}
\* "definer": CREATE OR REPLACE VIEW ... with no security_invoker and no
\* WHERE on the owner; the view reads the tables with its owner's rights.
\* "invoker": WITH (security_invoker = true) ... AND v.user_id = auth.uid()
ViewDefs == {"definer", "invoker"}
FinalSchema == [w \in ViewNames |-> "invoker"]

\* active_payments_view: the vaults its rows are about
active_payments_view(def, uid, vs, ps) ==
    IF def = "definer"
    THEN {p.vault_id : p \in {q \in ps : /\ q.status = "active"
                                         /\ \E v \in vs : v.id = q.vault_id}}
    ELSE {p.vault_id : p \in {q \in ps :
              /\ PaymentsSelectUsing(uid, q, vs)
              /\ q.status = "active"
              /\ \E v \in vs : /\ VaultsSelectUsing(uid, v)
                               /\ v.id = q.vault_id
                               /\ v.user_id = uid}}

\* vault_spending_summary: one row per vault
vault_spending_summary(def, uid, vs, ps) ==
    IF def = "definer"
    THEN {v.id : v \in vs}
    ELSE {v.id : v \in {w \in vs : VaultsSelectUsing(uid, w) /\ w.user_id = uid}}

\* get_payments_over_time(): SECURITY DEFINER, AND v.user_id = auth.uid()
get_payments_over_time(uid, vs, ps) ==
    {p.vault_id : p \in {q \in ps :
        /\ q.status = "completed"
        /\ q.last_payment_date # 0
        /\ \E v \in vs : v.id = q.vault_id /\ v.user_id = uid}}

\* SELECT * FROM <view>
SelectView(c, view) ==
    /\ lastOp' = [NoOp EXCEPT !.caller = c, !.table = view, !.op = "view",
                      !.result = "ok",
                      !.rows = IF view = "active_payments_view"
                               THEN active_payments_view(schema[view], c, vaults, payments)
                               ELSE vault_spending_summary(schema[view], c, vaults, payments)]
    /\ UNCHANGED <<vaults, payments, nextId, tx, createLog, schema, authVars, libVars, payVars, spend_permissions, permission_history, onboarding>>

\* supabase.rpc("get_payments_over_time")
SelectPaymentsOverTime(c) ==
    /\ lastOp' = [NoOp EXCEPT !.caller = c, !.table = "get_payments_over_time",
                      !.op = "view", !.result = "ok",
                      !.rows = get_payments_over_time(c, vaults, payments)]
    /\ UNCHANGED <<vaults, payments, nextId, tx, createLog, schema, authVars, libVars, payVars, spend_permissions, permission_history, onboarding>>

AuthInit ==
    /\ now = 0
    /\ auth_nonces = {}
    /\ issued = {}
    /\ handed = {}
    /\ req = [r \in ReqIds |-> IdleReq]
    /\ auth_users = {}
    /\ user_profiles = {}

StoreInit ==
    /\ vaults = {}
    /\ payments = {}
    /\ nextId = [vault |-> 1, payment |-> 1]
    /\ tx = [t \in TxIds |-> IdleTx]
    /\ lastOp = NoOp
    /\ createLog = <<>>

LibInit ==
    /\ call = NoCall
    /\ pay = [k \in PayIds |-> IdlePay]
    /\ calendar = NoCalendar
    /\ spend_permissions = {} /\ permission_history = <<>>
    /\ onboarding = NewOnboarding

Init == AuthInit /\ StoreInit /\ LibInit /\ schema = FinalSchema

\* any of the migrations' view definitions may be the one in force
InitViews == AuthInit /\ StoreInit /\ LibInit /\ schema \in [ViewNames -> ViewDefs]

\* a name handed to generate_handle / handleize
InitHandle ==
    /\ AuthInit /\ StoreInit /\ schema = FinalSchema
    /\ call \in {[NoCall EXCEPT !.input = s] : s \in HandleInputs}
    /\ pay = [k \in PayIds |-> IdlePay]
    /\ calendar = NoCalendar
    /\ spend_permissions = {} /\ permission_history = <<>>
    /\ onboarding = NewOnboarding

\* the Chain ID field of a signed message: the digits after "Chain ID: ", none
\* when the message has no such field
InitChain ==
    /\ AuthInit /\ StoreInit /\ schema = FinalSchema
    /\ LET ChainDigits == {"1", "2", "3", "4", "5", "8"}
       IN call \in {[NoCall EXCEPT !.input = s] :
                      s \in UNION {[1..n -> ChainDigits] : n \in 0..MaxChainDigits}}
    /\ pay = [k \in PayIds |-> IdlePay]
    /\ calendar = NoCalendar
    /\ spend_permissions = {} /\ permission_history = <<>>
    /\ onboarding = NewOnboarding

NextAuth ==
    \/ \E n \in Nonces, e \in BOOLEAN : GET(n, e)
    \/ delete_expired_nonces
    \/ Tick
    \/ \E r \in ReqIds, a \in AuthAddresses, n \in Nonces \cup {NoNonce},
          s \in BOOLEAN, m \in BOOLEAN :
            \* a body with a field missing is not read any further
            /\ m => (n = NoNonce /\ ~s)
            /\ POST_Start(r, a, n, s, m)
    \/ \E r \in ReqIds, e \in BOOLEAN : POST_SelectNonce(r, e)
    \/ \E r \in ReqIds : POST_DeleteNonce(r)
    \/ \E r \in ReqIds, e \in BOOLEAN : POST_Verify(r, e)
    \/ \E r \in ReqIds, e \in BOOLEAN : POST_ProfileLookup(r, e)
    \/ \E r \in ReqIds : POST_CreateUser(r)
    \/ \E r \in ReqIds, e \in BOOLEAN : POST_SignIn(r, e)

\* the statements any signed-in client can send to the store
NextStore ==
    \/ \E t \in TxIds, c \in Users, owner \in Users, n \in RawNames, h \in RawHandles :
            InsertVaultBegin(t, c, owner, n, h, "raw")
    \/ \E t \in TxIds, c \in Users, id \in 1..MaxVaults, patch \in VaultPatches :
            UpdateVaultBegin(t, c, id, patch)
    \/ \E t \in TxIds : CommitVaultWrite(t)
    \/ \E c \in Users, id \in 1..MaxVaults : DeleteVault(c, id)
    \/ \E c \in Users : SelectVaults(c)
    \/ \E c \in Users, vid \in 1..MaxVaults : InsertPayment(c, vid)
    \/ \E c \in Users, id \in 1..MaxPayments, patch \in MovePatches :
            UpdatePayment(c, id, patch)
    \/ \E c \in Users, id \in 1..MaxPayments : DeletePayment(c, id)
    \/ \E c \in Users : SelectPayments(c)

\* the create-vault form
NextCreate ==
    \/ \E t \in TxIds, u \in Users, n \in FormNames : createVault(t, u, n)
    \/ \E t \in TxIds : CommitVaultWrite(t)

\* the dashboard's read models over a populated store
NextViews ==
    \/ \E t \in TxIds, u \in Users, n \in FormNames : createVault(t, u, n)
    \/ \E t \in TxIds : CommitVaultWrite(t)
    \/ \E c \in Users, vid \in 1..MaxVaults : InsertPayment(c, vid)
    \/ \E c \in Users, id \in 1..MaxPayments, patch \in PaidPatches :
            UpdatePayment(c, id, patch)
    \/ \E c \in Users, view \in ViewNames : SelectView(c, view)
    \/ \E c \in Users : SelectPaymentsOverTime(c)

\* the new-payment form, over vaults made with the create-vault form
NextSeries ==
    \/ \E t \in TxIds, u \in Users, n \in RawNames : createVault(t, u, n)
    \/ \E t \in TxIds : CommitVaultWrite(t)
    \/ \E c \in Users, vid \in 1..MaxVaults, a \in AmountInputs, k \in 1..MaxPayments :
            createPaymentSeries(c, vid, a, "monthly", 2 * k)

\* the payments page: payments are created, paid with the wallet, deleted
NextPay ==
    \/ \E t \in TxIds, u \in PageUsers, n \in RawNames : createVault(t, u, n)
    \/ \E t \in TxIds : CommitVaultWrite(t)
    \/ \E c \in PageUsers, vid \in 1..MaxVaults, a \in PayAmounts, n \in 1..MaxPayments :
            createPaymentSeries(c, vid, a, "monthly", 2 * n)
    \/ \E c \in PageUsers, id \in 1..MaxPayments : DeletePayment(c, id)
    \/ \E c \in PageUsers : PaymentsCalendar(c)
    \/ \E k \in PayIds, c \in PageUsers, id \in 1..MaxPayments : handlePayNow_Start(k, c, id)
    \/ \E k \in PayIds, ok \in BOOLEAN : handlePayNow_SendCalls(k, ok)
    \/ \E k \in PayIds, o \in {"hash", "nohash", "throws"} : handlePayNow_GetCallsStatus(k, o)
    \/ \E k \in PayIds : storePaymentTransaction_SelectHashes(k)
    \/ \E k \in PayIds : storePaymentTransaction_SelectCount(k)
    \/ \E k \in PayIds : storePaymentTransaction_Update(k)
    \/ \E k \in PayIds : handlePayNow_UpdateExecutionDate(k)

\* vaults inserted with and without a handle, edited without a new name, deleted
NextEdit ==
    \/ \E t \in TxIds, u \in Users, n \in RawNames : createVault(t, u, n)
    \/ \E t \in TxIds, c \in Users,
          n \in RawNames \cup {Pad(HandleMaxLen - 2), Pad(HandleMaxLen)} :
            InsertVaultBegin(t, c, c, n, <<>>, "raw")
    \/ \E t \in TxIds, c \in Users, id \in 1..MaxVaults : updateVault(t, c, id)
    \/ \E t \in TxIds : CommitVaultWrite(t)
    \/ \E c \in Users, id \in 1..MaxVaults : DeleteVault(c, id)

\* the onboarding dialog of a signed-in user, with the two forms it opens
NextOnboarding ==
    \/ \E n \in BOOLEAN, h \in BOOLEAN, v \in 0..MaxVaults : OnboardingClient(n, h, v)
    \/ \E open \in BOOLEAN : setShowVaultModal(open)
    \/ \E t \in TxIds, u \in PageUsers, n \in FormNames :
            onboarding.showVaultModal /\ createVault(t, u, n)
    \/ \E t \in TxIds : CommitVaultWrite(t)
    \/ handleVaultCreated
    \/ \E open \in BOOLEAN : setShowPaymentModal(open)
    \/ \E c \in PageUsers, vid \in 1..MaxVaults, a \in PayAmounts, n \in 1..MaxPayments :
            onboarding.showPaymentModal /\ createPaymentSeries(c, vid, a, "monthly", 2 * n)
    \/ \E skipped \in BOOLEAN : handlePaymentCreated(skipped)
    \/ \E failed \in BOOLEAN : handleComplete(failed)

\* the new-payment form's action with every frequency and number of payments
NextRows ==
    \/ \E t \in TxIds, u \in Users, n \in RawNames : createVault(t, u, n)
    \/ \E t \in TxIds : CommitVaultWrite(t)
    \/ \E c \in Users, vid \in 1..MaxVaults, a \in PayAmounts,
          f \in {"none", "daily", "weekly", "monthly", "yearly"},
          n \in 2..(2 * MaxPayments + 1) :
            createPaymentSeries(c, vid, a, f, n)

\* the payment server actions called on their own
NextSchedule ==
    \/ \E t \in TxIds, u \in PageUsers, n \in RawNames : createVault(t, u, n)
    \/ \E t \in TxIds : CommitVaultWrite(t)
    \/ \E c \in PageUsers, vid \in 1..MaxVaults, a \in PayAmounts, n \in 1..MaxPayments :
            createPaymentSeries(c, vid, a, "monthly", 2 * n)
    \/ \E c \in PageUsers, id \in 1..MaxPayments : DeletePayment(c, id)
    \/ \E c \in PageUsers, id \in 1..MaxPayments, d \in {0, 2} : reschedule(c, id, d)
    \/ \E k \in PayIds, c \in PageUsers, id \in 1..MaxPayments :
            storePaymentTransaction(k, c, id)
    \/ \E k \in PayIds : storePaymentTransaction_SelectHashes(k)
    \/ \E k \in PayIds : storePaymentTransaction_SelectCount(k)
    \/ \E k \in PayIds : storePaymentTransaction_Update(k)

\* the statements a signed-in client sends about spend permissions
NextPerm ==
    \/ \E c \in Users, owner \in Users, st \in permission_status : InsertPermission(c, owner, st)
    \/ \E c \in Users, id \in 1..MaxPermissions, st \in permission_status,
          h \in {"null", "ok", "bad"} : UpdatePermission(c, id, st, h)
    \/ \E c \in Users, id \in 1..MaxPermissions : DeletePermission(c, id)

\* the two handle functions, applied to the name drawn
NextHandle ==
    \/ Call_generate_handle
    \/ Call_handleize

Next == NextAuth \/ NextStore \/ NextCreate \/ NextViews \/ NextHandle \/ NextSeries
        \/ NextPay \/ Call_POST_chain \/ NextPerm \/ NextSchedule \/ NextRows \/ NextOnboarding \/ NextEdit

SpecAuth == Init /\ [][NextAuth]_vars
SpecStore == Init /\ [][NextStore]_vars
SpecCreate == Init /\ [][NextCreate]_vars
SpecViews == InitViews /\ [][NextViews]_vars
SpecHandle == InitHandle /\ [][NextHandle]_vars
SpecSeries == Init /\ [][NextSeries]_vars
SpecPay == Init /\ [][NextPay]_vars
SpecChain == InitChain /\ [][Call_POST_chain]_vars
SpecPerm == Init /\ [][NextPerm]_vars
SpecSchedule == Init /\ [][NextSchedule]_vars
SpecRows == Init /\ [][NextRows]_vars
SpecOnboarding == Init /\ [][NextOnboarding]_vars
SpecEdit == Init /\ [][NextEdit]_vars

Spec == Init /\ [][Next]_vars

\* ------------------------------------------------ properties of /verify
Done(r) == req[r].pc = "done"
NonceRejected(r) ==
    Done(r) /\ req[r].status = 401 /\ req[r].error = ErrNonce /\ req[r].session = 0

\* C1: once a POST whose message embeds nonce N has passed the nonce check,
\* every POST with N that arrives later is rejected with 401 'Invalid or
\* expired nonce' and mints no session.
C1_LaterPostRejected ==
    \A r \in ReqIds :
        req[r].later =>
            /\ ~req[r].passedCheck
            /\ Done(r) => NonceRejected(r)

\* C2: of two POSTs presenting the same stored, unexpired nonce, both validly
\* signed, exactly one obtains a session and the other gets the nonce error,
\* whatever the interleaving of their lookups and deletes (downstream
\* failures, status 500, set aside).
C2_ExactlyOneRedeems ==
    \A r1, r2 \in ReqIds :
        ( /\ r1 # r2
          /\ Done(r1) /\ Done(r2)
          /\ req[r1].nonce = req[r2].nonce
          /\ req[r1].sigValid /\ req[r2].sigValid
          /\ req[r1].freshAtStart /\ req[r2].freshAtStart
          /\ req[r1].lookup = "fresh" /\ req[r2].lookup = "fresh"
          /\ req[r1].status # 500 /\ req[r2].status # 500 )
        => \/ req[r1].session # 0 /\ NonceRejected(r2)
           \/ req[r2].session # 0 /\ NonceRejected(r1)

\* C3: a session is returned only by a request that itself found the nonce
\* stored and unexpired and whose verifyMessage call returned true.
C3_SessionOnlyIfNonceAndSignature ==
    \A r \in ReqIds :
        (req[r].session # 0 \/ req[r].status = 200) =>
            /\ req[r].stored /\ req[r].lookup = "fresh"
            /\ req[r].verifyCalled /\ req[r].verifyResult /\ req[r].sigValid
            /\ req[r].status = 200 /\ req[r].session # 0

C3_Witness ==
    \E r \in ReqIds : Done(r) /\ req[r].status = 200 /\ req[r].session # 0

\* C4: a POST whose nonce row is stored but has expires_at <= now at the
\* lookup is rejected with 401 and gets no session.
C4_ExpiredRejected ==
    \A r \in ReqIds :
        (req[r].stored /\ req[r].lookup = "expired") =>
            /\ ~req[r].passedCheck
            /\ req[r].session = 0
            /\ Done(r) /\ req[r].status = 401

\* an expired nonce, never redeemed and never collected, was presented
C4_Witness ==
    \E r \in ReqIds :
        /\ Done(r) /\ req[r].stored /\ req[r].lookup = "expired"
        /\ NonceStored(req[r].nonce)
        /\ \A q \in ReqIds : req[q].nonce = req[r].nonce => ~req[q].passedCheck

\* C5: a correctly signed message whose nonce has expired gets the nonce
\* error, not 'Invalid signature', and verifyMessage is never called for it.
C5_NonceBeforeSignature ==
    \A r \in ReqIds :
        (req[r].sigValid /\ req[r].lookup = "expired") =>
            /\ ~req[r].verifyCalled
            /\ req[r].error # ErrSignature
            /\ NonceRejected(r)

C5_Witness ==
    \E r \in ReqIds :
        req[r].sigValid /\ req[r].lookup = "expired" /\ NonceRejected(r)
\* ------------------------------------------------ properties of the store
PaymentOwner(pid) ==
    IF \E p \in payments : p.id = pid
    THEN VaultOwner((CHOOSE p \in payments : p.id = pid).vault_id)
    ELSE ""

\* C6: a caller's select returns no vault or payment row whose owning vault
\* belongs to somebody else, and no statement of the caller changes or
\* removes such a row.
C6_ForeignRowsUntouched ==
    [][ LET c == lastOp'.caller
        IN /\ \A v \in vaults : v.user_id # c => v \in vaults'
           /\ \A p \in payments : VaultOwner(p.vault_id) # c => p \in payments'
           /\ (lastOp'.op = "select" /\ lastOp'.table = "vaults")
                => \A id \in lastOp'.rows : VaultOwner(id) = c
           /\ (lastOp'.op = "select" /\ lastOp'.table = "payments")
                => \A id \in lastOp'.rows : PaymentOwner(id) = c
      ]_vars

\* somebody else's payment was the target of a delete, which removed nothing
C6_Witness ==
    /\ lastOp.table = "payments" /\ lastOp.op = "delete"
    /\ lastOp.result = "zero" /\ lastOp.rows = {}
    /\ \E p \in payments : /\ p.id = lastOp.target
                           /\ VaultOwner(p.vault_id) # lastOp.caller

\* C7: whichever of the migrations' view definitions is in force, a read
\* model (vault_spending_summary, active_payments_view,
\* get_payments_over_time) shows a caller only rows about vaults the caller owns.
C7_ViewsShowOnlyOwnVaults ==
    lastOp.op = "view" => \A vid \in lastOp.rows : VaultOwner(vid) = lastOp.caller

\* C8: inserting a vault for another identity, re-assigning a vault to
\* another identity and inserting a payment into somebody else's vault are
\* rejected, and every stored vault's user_id is the identity that created it.
C8_OwnerIsCreator ==
    /\ \A v \in vaults : v.user_id = v.creator
    /\ (lastOp.foreign /\ lastOp.op = "insert") => lastOp.result = "rejected"
    /\ (lastOp.foreign /\ lastOp.op = "update") => lastOp.result \in {"rejected", "zero"}
    /\ (lastOp.foreign /\ lastOp.op \in {"insert", "update"}) => lastOp.rows = {}

\* a vault insert naming another identity as the owner was refused by the policy
C8_Witness ==
    /\ lastOp.table = "vaults" /\ lastOp.op = "insert" /\ lastOp.foreign
    /\ lastOp.result = "rejected" /\ lastOp.error = "row-level security"

\* C9: no two vaults of one owner have handles that are equal after
\* lower-casing, also when the writes that produce them run concurrently.
C9_HandleUniquePerOwner ==
    \A v1, v2 \in vaults :
        (v1.id # v2.id /\ v1.user_id = v2.user_id)
            => LowerStr(v1.handle) # LowerStr(v2.handle)

\* a write whose handle was free when its trigger ran was refused at commit,
\* a concurrent write of the same owner having stored that handle meanwhile
C9_Witness ==
    /\ lastOp.raced /\ lastOp.result = "rejected"
    /\ \E v \in vaults : v.user_id = lastOp.caller /\ v.id # lastOp.target

\* what createVault makes of a name: handleize, then the trigger's generate_handle
NormalizedHandle(input_name) == generate_handle(handleize(Trim(input_name)))

\* C10: the first two createVault calls of an owner whose names normalize to
\* the same handle H, the second made after the first has returned, both
\* store a vault, the first with handle H and the second with H-2.
C10_SecondVaultGetsSuffix2 ==
    \A i, j \in 1..Len(createLog) :
        LET H == NormalizedHandle(createLog[i].name)
            same(k) == /\ createLog[k].user = createLog[i].user
                       /\ NormalizedHandle(createLog[k].name) = H
        IN ( /\ i < j /\ H # <<>> /\ same(j)
             /\ createLog[j].began >= i
             /\ \A k \in 1..(j - 1) : k # i => ~same(k) )
           => /\ createLog[i].ok /\ createLog[i].handle = H
              /\ createLog[j].ok /\ createLog[j].handle = H \o <<"-", "2">>
              /\ \E v \in vaults : v.user_id = createLog[i].user /\ v.handle = H
              /\ \E v \in vaults : /\ v.user_id = createLog[i].user
                                   /\ v.handle = H \o <<"-", "2">>

\* C11: handle uniqueness is per owner: a createVault whose name normalizes
\* to H, by an owner none of whose other creations normalizes to H, succeeds
\* and stores handle H unchanged, whatever vaults other owners have.
C11_HandleScopedPerOwner ==
    \A j \in 1..Len(createLog) :
        LET H == NormalizedHandle(createLog[j].name)
        IN ( /\ H # <<>>
             /\ \A k \in 1..Len(createLog) :
                    (k # j /\ createLog[k].user = createLog[j].user)
                        => NormalizedHandle(createLog[k].name) # H )
           => /\ createLog[j].ok /\ createLog[j].handle = H
              /\ \E v \in vaults : v.user_id = createLog[j].user /\ v.handle = H

\* two owners each hold a vault with the same handle
C11_Witness ==
    /\ Len(createLog) = 2
    /\ createLog[1].user # createLog[2].user
    /\ createLog[1].ok /\ createLog[2].ok
    /\ createLog[1].handle = createLog[2].handle
    /\ \E v1, v2 \in vaults : /\ v1.user_id # v2.user_id
                              /\ v1.handle = v2.handle

\* C12: for every input, generate_handle returns the empty string or a
\* lower-case string of [a-z0-9] groups joined by single hyphens, with no
\* hyphen at either end, and never more than 50 characters.
C12_GenerateHandleFormat ==
    LET h == call.output
        \* ^[a-z0-9]+(-[a-z0-9]+)*$
        matches == /\ Len(h) > 0
                   /\ \A i \in 1..Len(h) : h[i] \in LowerAlnum \cup {"-"}
                   /\ h[1] # "-" /\ h[Len(h)] # "-"
                   /\ \A i \in 1..(Len(h) - 1) : ~(h[i] = "-" /\ h[i + 1] = "-")
    IN call.fn = "generate_handle" =>
          /\ h = <<>> \/ matches
          /\ Len(h) <= HandleMaxLen

\* the cut at 50 characters fell right after a hyphen, which was then dropped
C12_Witness ==
    /\ call.fn = "generate_handle"
    /\ Len(call.input) > HandleMaxLen
    /\ call.input[HandleMaxLen] = "-"
    /\ call.input[HandleMaxLen + 1] \in LowerAlnum
    /\ Len(call.output) = HandleMaxLen - 1

\* C13: createVault with a non-blank name that has no character of [a-z0-9]
\* after lower-casing still succeeds, and the vault it stores has a non-empty
\* handle of the required format.
C13_SymbolNameGetsHandle ==
    \A j \in 1..Len(createLog) :
        LET name == createLog[j].name
        IN ( /\ Trim(name) # <<>>
             /\ \A i \in 1..Len(name) : LowerChar(name[i]) \notin LowerAlnum )
           => /\ createLog[j].ok
              /\ createLog[j].handle # <<>>
              /\ vaults_handle_format(createLog[j].handle)

\* C14: every payment's vault_id is the id of a stored vault; in particular,
\* once a vault has been deleted no payment with its id as vault_id is left.
C14_PaymentsFollowTheirVault ==
    /\ \A p \in payments : \E v \in vaults : v.id = p.vault_id
    /\ (lastOp.table = "vaults" /\ lastOp.op = "delete" /\ lastOp.result = "ok")
          => \A p \in payments : p.vault_id # lastOp.target

\* a vault that had a payment was deleted, and the payment went with it
C14_Witness ==
    /\ lastOp.table = "vaults" /\ lastOp.op = "delete" /\ lastOp.result = "ok"
    /\ lastOp.cascaded # {}
    /\ \A p \in payments : p.id \notin lastOp.cascaded

\* the body had the three fields and the message a nonce
FieldsOk(r) == ~req[r].missing /\ req[r].nonce # NoNonce
\* the nonce was in the store and unexpired when the request looked it up
NonceOk(r) == req[r].stored /\ req[r].lookup = "fresh"

\* C15: POST /verify answers 400 exactly when a field is missing or the
\* message has no nonce, 401 exactly when the nonce is absent or expired or
\* the signature is invalid, 500 when profile lookup, user creation, sign-in
\* or a throwing call fails, and { ok, address, session } otherwise.
C15_StatusCodes ==
    \A r \in ReqIds :
        Done(r) =>
            /\ req[r].status \in {200, 400, 401, 500}
            /\ req[r].status = 400 <=> ~FieldsOk(r)
            /\ req[r].status = 401 <=>
                    /\ FieldsOk(r)
                    /\ ~NonceOk(r) \/ (~req[r].thrown /\ ~req[r].sigValid)
            /\ req[r].status = 500 <=>
                    /\ FieldsOk(r) /\ NonceOk(r)
                    /\ req[r].thrown \/ req[r].sigValid
                    /\ req[r].error \in {ErrProfile, ErrCreate, ErrSignIn, ErrInternal}
            /\ req[r].status = 200 <=> (req[r].error = "" /\ req[r].session # 0)

\* C16: every nonce GET /verify returns is, when it is returned, stored in
\* auth_nonces with expires_at five minutes after its issuance; when the
\* insert fails, no nonce that is absent from the store reaches the client.
C16_ReturnedNonceIsStored ==
    \A h \in handed :
        /\ h.stored
        /\ [nonce |-> h.nonce, expires_at |-> h.at + NonceTtlMinutes] \in issued

\* C17: whatever amount createPaymentSeries accepts, the amount of every
\* payment row is a string of digits: a non-negative whole number of the
\* token's smallest units.
C17_AmountIsNaturalString ==
    \A p \in payments : IsNaturalString(p.amount)

\* C18: a payment goes from 'active' to 'completed' only in the last step of
\* a handlePayNow for that payment whose wallet_sendCalls returned, and
\* next_execution_date is then NULL; the step in which the wallet call fails
\* leaves the payments as they were and ends that handlePayNow.
C18_CompletedOnlyAfterWalletCall ==
    [][ /\ \A p \in payments : \A q \in payments' :
              (p.id = q.id /\ p.status = "active" /\ q.status = "completed")
                => /\ q.next_execution_date = 0
                   /\ \E k \in PayIds : /\ pay[k].payment = p.id
                                         /\ pay[k].pc = "update" /\ pay'[k].pc = "done"
                                         /\ pay[k].walletOk
        /\ \A k \in PayIds :
              (pay[k].pc = "wallet" /\ pay'[k].pc # "wallet" /\ ~pay'[k].walletOk)
                => payments' = payments /\ pay'[k].pc = "done"
        /\ \A k \in PayIds : (pay[k].pc = "done" /\ ~pay[k].walletOk) => pay'[k] = pay[k]
      ]_vars

\* one handlePayNow ended with the wallet refusing, another completed its payment
C18_Witness ==
    \E k1, k2 \in PayIds :
        /\ pay[k1].pc = "done" /\ pay[k1].payment # NoId /\ ~pay[k1].walletOk
        /\ pay[k2].pc = "done" /\ pay[k2].walletOk /\ pay[k2].wrote
        /\ \E p \in payments : /\ p.id = pay[k2].payment /\ p.status = "completed"
                                /\ p.next_execution_date = 0

\* C19: an address is bound to at most one identity, every identity has
\* exactly one profile row, and every session POST /verify hands out for an
\* address is that identity's, however the requests interleave.
C19_OneIdentityPerAddress ==
    /\ \A p1, p2 \in user_profiles : p1.address = p2.address => p1.user_id = p2.user_id
    /\ \A u1, u2 \in auth_users : u1.email = u2.email => u1.id = u2.id
    /\ \A u \in auth_users : Cardinality({p \in user_profiles : p.user_id = u.id}) = 1
    /\ \A r \in ReqIds :
          (Done(r) /\ req[r].status = 200)
            => \E p \in user_profiles : p.address = req[r].address /\ p.user_id = req[r].session

\* two first-time authentications for one address ran side by side: one
\* created the identity, the other's createUser was refused
C19_Witness ==
    \E r1, r2 \in ReqIds :
        /\ r1 # r2 /\ req[r1].address = req[r2].address
        /\ Done(r1) /\ req[r1].status = 200
        /\ Done(r2) /\ req[r2].error = ErrCreate
        /\ Cardinality(auth_users) = 1

\* C20: a POST /verify whose body lacks address, message or signature is
\* answered with 400 in the step that reads the body, a step that leaves
\* auth_nonces as it was; the request never looks a nonce up or deletes one.
C20_MissingFieldsTouchNothing ==
    [][ \A r \in ReqIds :
          /\ (req[r].pc = "idle" /\ req'[r].missing)
                => /\ auth_nonces' = auth_nonces
                   /\ req'[r].pc = "done" /\ req'[r].status = 400
                   /\ req'[r].error = ErrMissing
          /\ (req[r].missing /\ req[r].pc # "idle")
                => /\ req'[r] = req[r]
                   /\ req[r].lookup = "none" /\ ~req[r].passedCheck
      ]_vars

\* while a nonce was waiting in the store, a request with a field missing was turned away
C20_Witness ==
    \E r \in ReqIds :
        /\ Done(r) /\ req[r].missing /\ req[r].status = 400
        /\ auth_nonces # {}

\* C21: a signature is verified by a client of the chain whose id the message
\* carries in its Chain ID field: the chain used never differs from the chain
\* the message claims.
C21_VerifierChainIsMessageChain ==
    (call.fn = "POST.chain" /\ call.input # <<>>)
        => call.output = <<parseInt(call.input)>>

C23_NoSecondSendCalls ==
    \A k \in PayIds : ~pay[k].resent

\* C24: while a handlePayNow call started from the mounted view is in flight
\* for a payment, the view's Pay button of that payment is disabled.
C24_ButtonDisabledWhileInFlight ==
    \A k \in PayIds :
        (pay[k].mounted /\ pay[k].pc \notin {"idle", "done"})
            => calendar.payingPaymentId = pay[k].payment

\* C25: the hash of every storePaymentTransaction call that returned success
\* is in the transaction_hashes of its payment.
C25_NoHashLost ==
    \A k \in PayIds : \A p \in payments :
        (pay[k].stored /\ pay[k].payment = p.id)
            => \E i \in 1..Len(p.transaction_hashes) : p.transaction_hashes[i] = k

\* C26: executed_count of a payment is the number of hashes in its
\* transaction_hashes.
C26_CountIsNumberOfHashes ==
    \A p \in payments : p.executed_count = Len(p.transaction_hashes)

\* C27: a payment is 'completed' exactly when its next_execution_date is null.
C27_CompletedIffNoNextDate ==
    \A p \in payments : (p.status = "completed") <=> (p.next_execution_date = 0)

\* a payment with a stored hash marked completed, and another moved on to a next date
C27_Witness ==
    /\ \E p \in payments : p.status = "completed" /\ p.transaction_hashes # <<>>
    /\ \E p \in payments : p.status = "active" /\ p.next_execution_date = 2

C29_CompleteMeansBothStepsDone ==
    /\ [](onboarding.currentStep = "complete"
            => {"create-vault", "create-payment"} \subseteq onboarding.completedSteps)
    /\ [][onboarding.completedSteps \subseteq onboarding'.completedSteps]_vars

\* the dialog was closed from step 'complete' after a vault was created in it
\* and the payment step was skipped or done
C29_Witness ==
    /\ onboarding.currentStep = "complete" /\ onboarding.onboarding_complete
    /\ ~onboarding.isOnboarding /\ onboarding.firstVaultId # NoId

\* C30: generate_handle returns every stored handle as it is, and an
\* updateVault call without a name leaves the handle of its vault unchanged.
C30_UpdateKeepsHandle ==
    /\ [](\A v \in vaults : generate_handle(v.handle) = v.handle)
    /\ [][\A v \in vaults : \A w \in vaults' : v.id = w.id => w.handle = v.handle]_vars

====
